---- MODULE Spec2Model ----
(***************************************************************************)
(* Fractional indexes (frac-indexes, src/src/index.js).                    *)
(*                                                                         *)
(* An index is a decimal string; the generator parses it to an IEEE 754    *)
(* binary64 number, computes with binary64 arithmetic and formats the      *)
(* result with toFixed.  The model keeps all three layers:                 *)
(*   - a string is a sequence of characters (digits 0..9, Dot, Minus);     *)
(*   - a binary64 value is a non-negative integer multiple of 2^-120 that  *)
(*     carries at most 53 significant bits, held as a little-endian        *)
(*     sequence of 15-bit limbs without leading zero limbs (TLC integers   *)
(*     are 32 bits wide), with a sign beside it where one can arise;       *)
(*   - every arithmetic operation is the exact operation followed by       *)
(*     round-to-nearest-even to 53 bits, Number() is the correctly         *)
(*     rounded decimal-to-binary conversion and toFixed the exact          *)
(*     binary-to-decimal one.                                              *)
(*                                                                         *)
(* Operations whose operands are used more than once are written as        *)
(* functions, f[x \in S], so that an operand is evaluated once, when the   *)
(* function is applied.                                                    *)
(***************************************************************************)
EXTENDS Integers, Sequences, FiniteSets, TLC

-----------------------------------------------------------------------------
(* Multi-precision naturals                                                *)

LimbBits == 15
LimbBase == 32768
FracLimbs == 8
MantBits == 53

Big == Seq(Nat)
QuotRem == [q : Big, r : Nat]

Pow2Tab == <<1, 2, 4, 8, 16, 32, 64, 128, 256, 512, 1024, 2048, 4096,
             8192, 16384, 32768, 65536, 131072, 262144, 524288, 1048576>>
Pow2(k) == Pow2Tab[k + 1]

MaxI(x, y) == IF x >= y THEN x ELSE y

Limb(a, i) == IF i >= 1 /\ i <= Len(a) THEN a[i] ELSE 0

Zeros(n) == [i \in 1..n |-> 0]

LowZero(a, n) == \A i \in 1..n : Limb(a, i) = 0

\* a without its most significant zero limbs
Trim[a \in Big] ==
    SubSeq(a, 1, CHOOSE m \in 0..Len(a) :
                    /\ m = 0 \/ a[m] # 0
                    /\ \A j \in (m + 1)..Len(a) : a[j] = 0)

\* the carry into limb i of a + b: some lower limb overflows and every
\* limb between it and i passes the carry on
CarryInto(a, b, i) ==
    IF \E j \in 1..(i - 1) :
          /\ Limb(a, j) + Limb(b, j) >= LimbBase
          /\ \A k \in (j + 1)..(i - 1) : Limb(a, k) + Limb(b, k) = LimbBase - 1
    THEN 1 ELSE 0

BigAdd[a \in Big, b \in Big] ==
    Trim[[i \in 1..(MaxI(Len(a), Len(b)) + 1) |->
            (Limb(a, i) + Limb(b, i) + CarryInto(a, b, i)) % LimbBase]]

BorrowFrom(a, b, i) ==
    IF \E j \in 1..(i - 1) :
          /\ Limb(a, j) < Limb(b, j)
          /\ \A k \in (j + 1)..(i - 1) : Limb(a, k) = Limb(b, k)
    THEN 1 ELSE 0

\* a - b for a >= b
BigSub[a \in Big, b \in Big] ==
    Trim[[i \in 1..Len(a) |->
            (Limb(a, i) - Limb(b, i) - BorrowFrom(a, b, i) + LimbBase)
               % LimbBase]]

\* the highest limb where a and b differ, 0 when they are equal
TopDifference(a, b) ==
    CHOOSE m \in 0..MaxI(Len(a), Len(b)) :
       /\ m = 0 \/ Limb(a, m) # Limb(b, m)
       /\ \A j \in (m + 1)..MaxI(Len(a), Len(b)) : Limb(a, j) = Limb(b, j)

\* -1, 0, 1 as a < b, a = b, a > b
BigCmp[a \in Big, b \in Big] ==
    IF a = b THEN 0
    ELSE IF Limb(a, TopDifference(a, b)) > Limb(b, TopDifference(a, b))
    THEN 1 ELSE -1

\* a * m for 0 <= m < LimbBase
MulSmall[a \in Big, m \in Nat] ==
    BigAdd[[i \in 1..Len(a) |-> (a[i] * m) % LimbBase],
           <<0>> \o [i \in 1..Len(a) |-> (a[i] * m) \div LimbBase]]

\* a * b[i] * LimbBase^(i-1)
MulTerm(a, b, i) == IF i >= 1 THEN Zeros(i - 1) \o MulSmall[a, b[i]] ELSE <<>>

\* a * b when the non-zero limbs of b are among its five highest, as
\* they are for a value of at most MantBits significant bits
BigMul[a \in Big, b \in Big] ==
    BigAdd[BigAdd[MulTerm(a, b, Len(b)), MulTerm(a, b, Len(b) - 1)],
           BigAdd[BigAdd[MulTerm(a, b, Len(b) - 2), MulTerm(a, b, Len(b) - 3)],
                  MulTerm(a, b, Len(b) - 4)]]

\* long division by d, 0 < d < LimbBase, of the limbs i, i-1, .., 1 of a,
\* entered with the quotient limbs q above them and the remainder r
LongDiv[a \in Big, d \in Nat, i \in Nat, q \in Big, r \in Nat] ==
    IF i = 0 THEN [q |-> Trim[q], r |-> r]
    ELSE LongDiv[a, d, i - 1, <<(r * LimbBase + a[i]) \div d>> \o q,
                 (r * LimbBase + a[i]) % d]

\* quotient and remainder of a by d
DivSmall[a \in Big, d \in Nat] == LongDiv[a, d, Len(a), <<>>, 0]

\* a * 10^f
MulPow10[a \in Big, f \in Nat] ==
    IF f = 0 THEN a
    ELSE IF f >= 4 THEN MulPow10[MulSmall[a, 10000], f - 4]
    ELSE MulPow10[MulSmall[a, 10], f - 1]

\* floor(d.q / 10^f), and whether anything was cut off, by that division
\* or by an earlier one whose remainder is d.r or whose mark is st
DivPow10[d \in QuotRem, f \in Nat, st \in BOOLEAN] ==
    IF f = 0 THEN [q |-> d.q, st |-> st \/ d.r # 0]
    ELSE IF f >= 4 THEN DivPow10[DivSmall[d.q, 10000], f - 4, st \/ d.r # 0]
    ELSE DivPow10[DivSmall[d.q, 10], f - 1, st \/ d.r # 0]

BitLen(t) == CHOOSE b \in 1..LimbBits : Pow2(b - 1) <= t /\ t < Pow2(b)

\* the number of significant bits of a
BitLength[a \in Big] ==
    IF a = <<>> THEN 0 ELSE LimbBits * (Len(a) - 1) + BitLen(a[Len(a)])

-----------------------------------------------------------------------------
(* binary64 arithmetic on non-negative values                              *)

\* a, whose lowest cut bits go, rounded to nearest, ties to even; sticky
\* tells that the exact value lies above a
RoundAt[a \in Big, sticky \in BOOLEAN, cut \in Nat] ==
    LET cl == cut \div LimbBits
        cb == cut % LimbBits
        part == Limb(a, cl + 1)
        kept == Zeros(cl) \o <<part - (part % Pow2(cb))>>
                   \o SubSeq(a, cl + 2, Len(a))
        one == Zeros(cl) \o <<Pow2(cb)>>
        halfBit == IF cb = 0 THEN Limb(a, cl) \div Pow2(LimbBits - 1)
                   ELSE (part \div Pow2(cb - 1)) % 2
        below == IF cb = 0
                 THEN Limb(a, cl) % Pow2(LimbBits - 1) # 0
                         \/ ~LowZero(a, cl - 1)
                 ELSE part % Pow2(cb - 1) # 0 \/ ~LowZero(a, cl)
        odd == (part \div Pow2(cb)) % 2 = 1
    IN  IF halfBit = 1 /\ (below \/ sticky \/ odd)
        THEN BigAdd[kept, one] ELSE Trim[kept]

\* a rounded to MantBits significant bits
Round53[a \in Big, sticky \in BOOLEAN] ==
    IF BitLength[a] <= MantBits THEN a
    ELSE RoundAt[a, sticky, BitLength[a] - MantBits]

FAdd(x, y) == Round53[BigAdd[x, y], FALSE]

\* x - y for x >= y
FSub(x, y) == Round53[BigSub[x, y], FALSE]

\* the product p of two values, which has 2 * FracLimbs fraction limbs
RoundProduct[p \in Big] ==
    Round53[SubSeq(p, FracLimbs + 1, Len(p)), ~LowZero(p, FracLimbs)]

FMul(x, y) == RoundProduct[BigMul[x, y]]

RoundQuotient[d \in QuotRem] == Round53[d.q, d.r # 0]

\* x / c for an integer 0 < c < LimbBase
FDivInt(x, c) == RoundQuotient[DivSmall[x, c]]

\* x * m for an integer 0 <= m < LimbBase
FMulInt(x, m) == Round53[MulSmall[x, m], FALSE]

FLess(x, y) == BigCmp[x, y] < 0

\* x <= y with equality left out
FLessOnly(x, y) == BigCmp[x, y] < 0

FLessEq(x, y) == BigCmp[x, y] <= 0

\* Math.min
FMin[x \in Big, y \in Big] == IF BigCmp[x, y] <= 0 THEN x ELSE y

-----------------------------------------------------------------------------
(* Strings and conversions                                                 *)

Dot == -1
Minus == -2
NullCh == -3

Str == Seq(Int)

\* the value null, which is no string
Null == <<NullCh>>

DotPos(s) == IF \E i \in 1..Len(s) : s[i] = Dot
             THEN CHOOSE i \in 1..Len(s) : s[i] = Dot
             ELSE Len(s) + 1
IntPart(s) == SubSeq(s, 1, DotPos(s) - 1)
FracPart(s) == SubSeq(s, DotPos(s) + 1, Len(s))

\* the digits ds read four at a time from position i on, after the value
\* acc of the digits before them
Horner[ds \in Str, i \in Nat, acc \in Big] ==
    IF i > Len(ds) THEN acc
    ELSE IF i + 3 <= Len(ds)
    THEN Horner[ds, i + 4,
                BigAdd[MulSmall[acc, 10000],
                       <<1000 * ds[i] + 100 * ds[i + 1] + 10 * ds[i + 2]
                            + ds[i + 3]>>]]
    ELSE Horner[ds, i + 1, BigAdd[MulSmall[acc, 10], <<ds[i]>>]]

\* the natural number written with the decimal digits ds
DigitsToBig[ds \in Str] == Horner[ds, 1, <<>>]

RoundScaled[d \in [q : Big, st : BOOLEAN]] == Round53[d.q, d.st]

\* the digits D of a decimal with f of them after the point
Scaled[D \in Big, f \in Nat] ==
    IF D = <<>> THEN <<>>
    ELSE RoundScaled[DivPow10[[q |-> Zeros(FracLimbs) \o D, r |-> 0],
                              f, FALSE]]

\* Number(s) for a string of digits with at most one point
Number[s \in Str] == Scaled[DigitsToBig[IntPart(s) \o FracPart(s)],
                            Len(FracPart(s))]

Digits4(r) == <<r \div 1000, (r \div 100) % 10, (r \div 10) % 10, r % 10>>

\* the decimal digits, four for each division by 10000, of the number
\* whose last division left d, before the digits acc
ToChunks[d \in QuotRem, acc \in Str] ==
    IF d.q = <<>> THEN Digits4(d.r) \o acc
    ELSE ToChunks[DivSmall[d.q, 10000], Digits4(d.r) \o acc]

\* ds without leading zeros, but not empty
StripZeros[ds \in Str] ==
    SubSeq(ds, CHOOSE m \in 1..Len(ds) :
                  /\ m = Len(ds) \/ ds[m] # 0
                  /\ \A j \in 1..(m - 1) : ds[j] = 0,
           Len(ds))

\* the decimal digits of the natural number a
BigToDigits[a \in Big] == StripZeros[ToChunks[DivSmall[a, 10000], <<>>]]

\* the digits ds of an integer n as the decimal n / 10^f
Place[ds \in Str, f \in Nat] ==
    IF f = 0 THEN ds
    ELSE IF Len(ds) <= f
    THEN <<0, Dot>> \o Zeros(f - Len(ds)) \o ds
    ELSE SubSeq(ds, 1, Len(ds) - f) \o <<Dot>>
            \o SubSeq(ds, Len(ds) - f + 1, Len(ds))

\* m = x * 10^f rounded to an integer, halves upwards
RoundHalfUp[m \in Big] ==
    IF Limb(m, FracLimbs) >= Pow2(LimbBits - 1)
    THEN BigAdd[SubSeq(m, FracLimbs + 1, Len(m)), <<1>>]
    ELSE SubSeq(m, FracLimbs + 1, Len(m))

\* x.toFixed(f) for x >= 0: the exact value of x, to f decimals
ToFixed(x, f) == Place[BigToDigits[RoundHalfUp[MulPow10[x, f]]], f]

-----------------------------------------------------------------------------
(* Signed values: a magnitude and whether it is below zero                 *)

Signed == [neg : BOOLEAN, mag : Big]

Pos(x) == [neg |-> FALSE, mag |-> x]

\* x - y
SSub[x \in Big, y \in Big] ==
    IF BigCmp[x, y] >= 0 THEN [neg |-> FALSE, mag |-> FSub(x, y)]
    ELSE [neg |-> TRUE, mag |-> FSub(y, x)]

\* x + s
SAdd[x \in Big, s \in Signed] ==
    IF ~s.neg THEN [neg |-> FALSE, mag |-> FAdd(x, s.mag)]
    ELSE SSub[x, s.mag]

\* s * y, +0 and -0 being one zero
SMul[s \in Signed, y \in Big] ==
    IF s.mag = <<>> \/ y = <<>> THEN [neg |-> FALSE, mag |-> <<>>]
    ELSE [neg |-> s.neg, mag |-> FMul(s.mag, y)]

\* s <= t
SLessEq[s \in Signed, t \in Signed] ==
    IF s.neg /\ ~t.neg THEN TRUE
    ELSE IF ~s.neg /\ t.neg THEN s.mag = <<>> /\ t.mag = <<>>
    ELSE IF s.neg THEN BigCmp[t.mag, s.mag] <= 0
    ELSE BigCmp[s.mag, t.mag] <= 0

-----------------------------------------------------------------------------
(* Math.random(): the draw k of 0 .. 2^RandBits - 1 is k / 2^RandBits.     *)
(* The greatest draw is near enough to 1 for                               *)
(* Math.floor(10000 + Math.random() * 90000) to reach its greatest value.  *)

RandBits == 17

RandomValue(k) ==
    Trim[Zeros(FracLimbs - 2)
            \o <<(k * Pow2(2 * LimbBits - RandBits)) % LimbBase,
                 (k * Pow2(2 * LimbBits - RandBits)) \div LimbBase>>]

\* the least, the middle and the greatest draw
Draws == {0, Pow2(RandBits - 1), Pow2(RandBits) - 1}

-----------------------------------------------------------------------------
(* generateFractionalIndex                                                 *)

stepSize == Number[<<0, Dot, 0, 0, 1>>]
emptyJitter == Number[<<0, Dot, 0, 0, 0, 1>>]
beginningJitterShare == Number[<<0, Dot, 1>>]
endJitter == Number[<<0, Dot, 0, 0, 0, 1>>]
minSafeGap == Number[<<0, Dot, 0, 0, 0, 0, 0, 0, 0, 0, 0, 1>>]
maxJitterShare == Number[<<0, Dot, 2, 5>>]
half == Number[<<0, Dot, 5>>]
epsilon == Number[<<0, Dot, 0, 0, 0, 0, 0, 0, 0, 0, 0, 0, 0, 0, 0, 0, 1>>]

\* what a call does: it returns value, or throws; warned says that it
\* wrote the boundary warning to the console first
Result == [thrown : BOOLEAN, value : Str, warned : BOOLEAN]
Returned(str, warn) == [thrown |-> FALSE, value |-> str, warned |-> warn]
InvalidRange == [thrown |-> TRUE, value |-> <<>>, warned |-> FALSE]

\* a base of the whole step, not half of it
wholeStepBase == stepSize

\* "List is empty"
emptyListBase == FDivInt(stepSize, 2)
emptyList(k) ==
    ToFixed(FAdd(emptyListBase, FMul(RandomValue(k), emptyJitter)), 10)

\* "Beginning of List"
beginningBase(nextNum) == FMin[FDivInt(stepSize, 2), FDivInt(nextNum, 2)]
beginningJittered[baseIndex \in Big, k \in Nat] ==
    ToFixed(FAdd(baseIndex,
                 FMul(RandomValue(k), FMul(baseIndex, beginningJitterShare))),
            10)
beginningOfList(nextIndex, k) ==
    beginningJittered[beginningBase(Number[nextIndex]), k]

\* "End of List"
endBase(prevNum) == FAdd(prevNum, stepSize)

\* the end of the list at the precision of an index between two items
endOfListLong(prevIndex, k) ==
    ToFixed(FAdd(endBase(Number[prevIndex]), FMul(RandomValue(k), endJitter)),
            15)

endOfList(prevIndex, k) ==
    ToFixed(FAdd(endBase(Number[prevIndex]), FMul(RandomValue(k), endJitter)),
            10)

\* gap < 0 alone, which lets equal bounds through
isNegativeRange(gap) == gap.neg

\* gap <= 0
isInvalidRange(gap) == SLessEq[gap, Pos(<<>>)]

\* prevNum + gap, the far end in place of the middle
farEndOf(prevNum, gap) == FAdd(prevNum, gap)

\* prevNum + (gap / 2)
midpointOf(prevNum, gap) == FAdd(prevNum, FDivInt(gap, 2))

\* (Math.random() - 0.5) * gap, a jitter of the whole gap
wideJitterOf(gap, k) == SMul[SSub[RandomValue(k), half], gap]

\* (Math.random() - 0.5) * maxJitter, with maxJitter = gap * 0.25
jitterOf(gap, k) ==
    SMul[SSub[RandomValue(k), half], FMul(gap, maxJitterShare)]

\* the precision of an index placed between two items
betweenDigits == 15

\* finalIndex <= (prevNum + epsilon) || finalIndex >= (nextNum - epsilon)
boundaryViolation(finalIndex, prevNum, nextNum) ==
    \/ SLessEq[finalIndex, Pos(FAdd(prevNum, epsilon))]
    \/ SLessEq[SSub[nextNum, epsilon], finalIndex]

\* "Between Two Items", from the boundary check on
betweenChecked[prevNum \in Big, nextNum \in Big, midpoint \in Big, finalIndex \in Signed] ==
    IF boundaryViolation(finalIndex, prevNum, nextNum)
    THEN Returned(ToFixed(midpoint, betweenDigits), TRUE)
    ELSE Returned(ToFixed(finalIndex.mag, betweenDigits), FALSE)

\* from the jitter on
betweenJittered[prevNum \in Big, nextNum \in Big, midpoint \in Big, jitter \in Signed] ==
    betweenChecked[prevNum, nextNum, midpoint, SAdd[midpoint, jitter]]

\* from the gap on
betweenGap[prevNum \in Big, nextNum \in Big, gap \in Signed, k \in Nat] ==
    IF isInvalidRange(gap) THEN InvalidRange
    ELSE IF FLessEq(gap.mag, minSafeGap)
    THEN Returned(ToFixed(midpointOf(prevNum, gap.mag), betweenDigits), FALSE)
    ELSE betweenJittered[prevNum, nextNum, midpointOf(prevNum, gap.mag),
                         jitterOf(gap.mag, k)]

\* from the two numbers on
betweenNumbers[prevNum \in Big, nextNum \in Big, k \in Nat] ==
    betweenGap[prevNum, nextNum, SSub[nextNum, prevNum], k]

betweenTwoItems(prevIndex, nextIndex, k) ==
    betweenNumbers[Number[prevIndex], Number[nextIndex], k]

\* the call generateFractionalIndex(prevIndex, nextIndex) when Math.random()
\* returns RandomValue(k)
generateFractionalIndex(prevIndex, nextIndex, k) ==
    IF prevIndex = Null /\ nextIndex = Null
    THEN Returned(emptyList(k), FALSE)
    ELSE IF prevIndex = Null
    THEN Returned(beginningOfList(nextIndex, k), FALSE)
    ELSE IF nextIndex = Null
    THEN Returned(endOfList(prevIndex, k), FALSE)
    ELSE betweenTwoItems(prevIndex, nextIndex, k)

-----------------------------------------------------------------------------
(* generateBulkIndexes and generateRelocationIndexes                       *)

\* what a batch call does: it returns the array values, or throws
ReturnedAll(strs, warn) == [thrown |-> FALSE, values |-> strs, warned |-> warn]
Thrown(warn) == [thrown |-> TRUE, values |-> <<>>, warned |-> warn]

\* [generateFractionalIndex(prevIndex, nextIndex)]
arrayOf[r \in Result] ==
    IF r.thrown THEN Thrown(r.warned) ELSE ReturnedAll(<<r.value>>, r.warned)
single(prevIndex, nextIndex, k) ==
    arrayOf[generateFractionalIndex(prevIndex, nextIndex, k)]

\* the variables of the loop of generateBulkIndexes, and whether a call
\* has thrown
LoopState == [indexes : Seq(Str), currentPrev : Str, thrown : BOOLEAN, warned : BOOLEAN]

\* the loop entered with no item before the first
loopEntryAtNull(prevIndex) ==
    [indexes |-> <<>>, currentPrev |-> Null, thrown |-> FALSE,
     warned |-> FALSE]

loopEntry(prevIndex) ==
    [indexes |-> <<>>, currentPrev |-> prevIndex, thrown |-> FALSE,
     warned |-> FALSE]

\* indexes.push(newIndex); currentPrev = newIndex
pushed[st \in LoopState, r \in Result] ==
    IF r.thrown
    THEN [st EXCEPT !.thrown = TRUE, !.warned = st.warned \/ r.warned]
    ELSE [indexes |-> Append(st.indexes, r.value), currentPrev |-> r.value,
          thrown |-> FALSE, warned |-> st.warned \/ r.warned]

\* iterations lo..hi of the loop, entered in state st; iteration i draws
\* RandomValue(ks[i]).  The range is cut in halves: the second half is
\* entered in the state the first half leaves.
bulkLoop[st \in LoopState, nextIndex \in Str, ks \in Seq(Nat), lo \in Nat, hi \in Nat] ==
    IF st.thrown THEN st
    ELSE IF lo = hi
    THEN pushed[st, generateFractionalIndex(st.currentPrev, nextIndex, ks[lo])]
    ELSE bulkLoop[bulkLoop[st, nextIndex, ks, lo, (lo + hi) \div 2],
                  nextIndex, ks, (lo + hi) \div 2 + 1, hi]

loopExit[st \in LoopState] ==
    IF st.thrown THEN Thrown(st.warned) ELSE ReturnedAll(st.indexes, st.warned)

\* the call generateBulkIndexes(prevIndex, nextIndex, count) when the i-th
\* call of Math.random() returns RandomValue(ks[i])
generateBulkIndexes(prevIndex, nextIndex, count, ks) ==
    IF count <= 0 THEN ReturnedAll(<<>>, FALSE)
    ELSE IF count = 1 THEN single(prevIndex, nextIndex, ks[1])
    ELSE loopExit[bulkLoop[loopEntry(prevIndex), nextIndex, ks, 1, count]]

\* str.slice(0, n)
Slice(str, n) == SubSeq(str, 1, IF Len(str) < n THEN Len(str) ELSE n)

\* a string is truthy unless it is null or empty
Truthy(str) == str # Null /\ str # <<>>

\* a signed value of magnitude mag, zero having no sign
WithSign[neg \in BOOLEAN, mag \in Big] == [neg |-> neg /\ mag # <<>>, mag |-> mag]

\* s / c and s * m for small naturals c, m
SDivInt[s \in Signed, c \in Nat] == WithSign[s.neg, FDivInt(s.mag, c)]
SMulInt[s \in Signed, m \in Nat] == WithSign[s.neg, FMulInt(s.mag, m)]

\* toFixed of a signed value: the sign, then the digits of the magnitude
SToFixed[s \in Signed, f \in Nat] ==
    IF s.neg THEN <<Minus>> \o ToFixed(s.mag, f) ELSE ToFixed(s.mag, f)

prefixLength == 7
evenDigits == 5

\* Math.floor(x).toString()
FloorDigits[x \in Big] == BigToDigits[SubSeq(x, FracLimbs + 1, Len(x))]

\* Math.floor(10000 + Math.random() * 90000).toString()
suffixBase == Number[<<1, 0, 0, 0, 0>>]
suffixSpan == Number[<<9, 0, 0, 0, 0>>]

\* the suffix without the 10000 it starts from
suffixUnpadded(k) == FloorDigits[FMul(RandomValue(k), suffixSpan)]

\* the suffix counted from 90000 on
suffixShifted(k) ==
    FloorDigits[FAdd(suffixSpan, FMul(RandomValue(k), suffixSpan))]

suffix(k) == FloorDigits[FAdd(suffixBase, FMul(RandomValue(k), suffixSpan))]

\* the evenly spaced positions start + step * i, each with its suffix
positions[start \in Big, step \in Signed, count \in Nat, ks \in Seq(Nat)] ==
    [i \in 1..count |->
       SToFixed[SAdd[start, SMulInt[step, i]], evenDigits] \o suffix(ks[i])]

\* step = (end - start) / (count + 1)
spaced[start \in Big, end \in Big, count \in Nat, ks \in Seq(Nat)] ==
    positions[start, SDivInt[SSub[end, start], count + 1], count, ks]

\* end = targetNextIndex ? parseFloat(...) : start + stepSize * count
spacedFrom[start \in Big, targetNextIndex \in Str, count \in Nat, ks \in Seq(Nat)] ==
    spaced[start,
           IF Truthy(targetNextIndex)
           THEN Number[Slice(targetNextIndex, prefixLength)]
           ELSE FAdd(start, FMulInt(stepSize, count)),
           count, ks]

\* the even distribution over count steps from start on, whatever
\* targetNextIndex is
distributedOpenEnded(targetPrevIndex, targetNextIndex, count, ks) ==
    spacedFrom[IF Truthy(targetPrevIndex)
               THEN Number[Slice(targetPrevIndex, prefixLength)] ELSE <<>>,
               Null, count, ks]

\* the even distribution of generateRelocationIndexes
distributed(targetPrevIndex, targetNextIndex, count, ks) ==
    spacedFrom[IF Truthy(targetPrevIndex)
               THEN Number[Slice(targetPrevIndex, prefixLength)] ELSE <<>>,
               targetNextIndex, count, ks]

\* generateRelocationIndexes without its shortcut for one item
relocationUnshortened(targetPrevIndex, targetNextIndex, count, distributeEvenly, ks) ==
    IF count <= 0 THEN ReturnedAll(<<>>, FALSE)
    ELSE IF distributeEvenly
    THEN ReturnedAll(distributed(targetPrevIndex, targetNextIndex, count, ks),
                     FALSE)
    ELSE generateBulkIndexes(targetPrevIndex, targetNextIndex, count, ks)

\* generateRelocationIndexes distributing evenly whatever it is told
relocationAlwaysEven(targetPrevIndex, targetNextIndex, count, distributeEvenly, ks) ==
    IF count <= 0 THEN ReturnedAll(<<>>, FALSE)
    ELSE IF count = 1 THEN single(targetPrevIndex, targetNextIndex, ks[1])
    ELSE ReturnedAll(distributed(targetPrevIndex, targetNextIndex, count, ks),
                     FALSE)

\* generateRelocationIndexes checking its bounds before it distributes
relocationValidated(targetPrevIndex, targetNextIndex, count, distributeEvenly, ks) ==
    IF count <= 0 THEN ReturnedAll(<<>>, FALSE)
    ELSE IF count = 1 THEN single(targetPrevIndex, targetNextIndex, ks[1])
    ELSE IF distributeEvenly
    THEN IF /\ targetPrevIndex # Null
            /\ targetNextIndex # Null
            /\ ~FLess(Number[targetPrevIndex], Number[targetNextIndex])
         THEN Thrown(FALSE)
         ELSE ReturnedAll(distributed(targetPrevIndex, targetNextIndex, count,
                                      ks), FALSE)
    ELSE generateBulkIndexes(targetPrevIndex, targetNextIndex, count, ks)

\* the call generateRelocationIndexes(targetPrevIndex, targetNextIndex,
\* count, distributeEvenly) when the i-th call of Math.random() returns
\* RandomValue(ks[i])
generateRelocationIndexes(targetPrevIndex, targetNextIndex, count, distributeEvenly, ks) ==
    IF count <= 0 THEN ReturnedAll(<<>>, FALSE)
    ELSE IF count = 1 THEN single(targetPrevIndex, targetNextIndex, ks[1])
    ELSE IF distributeEvenly
    THEN ReturnedAll(distributed(targetPrevIndex, targetNextIndex, count, ks),
                     FALSE)
    ELSE generateBulkIndexes(targetPrevIndex, targetNextIndex, count, ks)

-----------------------------------------------------------------------------
(* The generator before the fix                                            *)

\* the old generator keeping 10 decimals of its position
brokenAtTenDecimals(prevIndex, nextIndex, k) ==
    (IF prevIndex = Null /\ nextIndex = Null
     THEN ToFixed(FDivInt(stepSize, 2), 10)
     ELSE IF prevIndex = Null
     THEN ToFixed(FMin[FDivInt(stepSize, 2), FDivInt(Number[nextIndex], 2)], 10)
     ELSE IF nextIndex = Null
     THEN ToFixed(FAdd(Number[prevIndex], stepSize), 10)
     ELSE ToFixed(FDivInt(FAdd(Number[prevIndex], Number[nextIndex]), 2), 10))
       \o suffix(k)

\* the call of the old generator when Math.random() returns RandomValue(k):
\* a position of 5 decimals, and the jitter appended to it as digits
brokenGenerateFractionalIndex(prevIndex, nextIndex, k) ==
    (IF prevIndex = Null /\ nextIndex = Null
     THEN ToFixed(FDivInt(stepSize, 2), 5)
     ELSE IF prevIndex = Null
     THEN ToFixed(FMin[FDivInt(stepSize, 2), FDivInt(Number[nextIndex], 2)], 5)
     ELSE IF nextIndex = Null
     THEN ToFixed(FAdd(Number[prevIndex], stepSize), 5)
     ELSE ToFixed(FDivInt(FAdd(Number[prevIndex], Number[nextIndex]), 2), 5))
       \o suffix(k)

-----------------------------------------------------------------------------
(* The ES5 build: the three functions as its file defines them             *)

\* "Between Two Items" of the ES5 build
es5Between[prevNum \in Big, nextNum \in Big, k \in Nat] ==
    LET gap == SSub[nextNum, prevNum]
        midpoint == FAdd(prevNum, FDivInt(gap.mag, 2))
        maxJitter == FMul(gap.mag, Number[<<0, Dot, 2, 5>>])
        jitter == SMul[SSub[RandomValue(k), Number[<<0, Dot, 5>>]], maxJitter]
        finalIndex == SAdd[midpoint, jitter]
        es5Epsilon == Number[<<0, Dot>> \o Zeros(14) \o <<1>>]
    IN  IF SLessEq[gap, Pos(<<>>)] THEN InvalidRange
        ELSE IF FLessEq(gap.mag, Number[<<0, Dot>> \o Zeros(9) \o <<1>>])
        THEN Returned(ToFixed(midpoint, 15), FALSE)
        ELSE IF \/ SLessEq[finalIndex, Pos(FAdd(prevNum, es5Epsilon))]
                \/ SLessEq[SSub[nextNum, es5Epsilon], finalIndex]
        THEN Returned(ToFixed(midpoint, 15), TRUE)
        ELSE Returned(ToFixed(finalIndex.mag, 15), FALSE)

\* the call generateFractionalIndex(prevIndex, nextIndex) of the ES5 build
\* when Math.random() returns RandomValue(k)
es5GenerateFractionalIndex(prevIndex, nextIndex, k) ==
    IF prevIndex = Null /\ nextIndex = Null
    THEN Returned(ToFixed(FAdd(FDivInt(Number[<<0, Dot, 0, 0, 1>>], 2),
                               FMul(RandomValue(k),
                                    Number[<<0, Dot, 0, 0, 0, 1>>])), 10),
                  FALSE)
    ELSE IF prevIndex = Null
    THEN LET baseIndex == FMin[FDivInt(Number[<<0, Dot, 0, 0, 1>>], 2),
                               FDivInt(Number[nextIndex], 2)]
         IN  Returned(ToFixed(FAdd(baseIndex,
                                   FMul(RandomValue(k),
                                        FMul(baseIndex, Number[<<0, Dot, 1>>]))),
                              10),
                      FALSE)
    ELSE IF nextIndex = Null
    THEN Returned(ToFixed(FAdd(FAdd(Number[prevIndex],
                                    Number[<<0, Dot, 0, 0, 1>>]),
                               FMul(RandomValue(k),
                                    Number[<<0, Dot, 0, 0, 0, 1>>])), 10),
                  FALSE)
    ELSE es5Between[Number[prevIndex], Number[nextIndex], k]

\* for (var i = 0; i < count; i++): the loop entered with i in state st;
\* the call of iteration i draws RandomValue(ks[i + 1])
es5Loop[st \in LoopState, nextIndex \in Str, ks \in Seq(Nat), i \in Nat, count \in Nat] ==
    IF st.thrown \/ i >= count THEN st
    ELSE es5Loop[pushed[st, es5GenerateFractionalIndex(st.currentPrev,
                                                       nextIndex, ks[i + 1])],
                 nextIndex, ks, i + 1, count]

es5GenerateBulkIndexes(prevIndex, nextIndex, count, ks) ==
    IF count <= 0 THEN ReturnedAll(<<>>, FALSE)
    ELSE IF count = 1
    THEN arrayOf[es5GenerateFractionalIndex(prevIndex, nextIndex, ks[1])]
    ELSE loopExit[es5Loop[loopEntry(prevIndex), nextIndex, ks, 0, count]]

\* the argument distributeEvenly of a call is <<b>> for the Boolean b, and
\* Omitted when the caller leaves it out
Omitted == <<>>

\* distributeEvenly taken as it comes: undefined is falsy
es5Undefaulted(distributeEvenly) ==
    distributeEvenly # Omitted /\ distributeEvenly[1]

\* if (typeof distributeEvenly === 'undefined') distributeEvenly = true
es5Defaulted(distributeEvenly) ==
    IF distributeEvenly = Omitted THEN TRUE ELSE distributeEvenly[1]

\* the even distribution of the ES5 build, from start and end on
es5Positions[start \in Big, end \in Big, count \in Nat, ks \in Seq(Nat)] ==
    [i \in 1..count |->
       SToFixed[SAdd[start, SMulInt[SDivInt[SSub[end, start], count + 1], i]],
                5]
          \o FloorDigits[FAdd(Number[<<1, 0, 0, 0, 0>>],
                              FMul(RandomValue(ks[i]),
                                   Number[<<9, 0, 0, 0, 0>>]))]]

\* the call generateRelocationIndexes(targetPrevIndex, targetNextIndex,
\* count, distributeEvenly) of the ES5 build
es5GenerateRelocationIndexes(targetPrevIndex, targetNextIndex, count, distributeEvenly, ks) ==
    IF count <= 0 THEN ReturnedAll(<<>>, FALSE)
    ELSE IF count = 1
    THEN arrayOf[es5GenerateFractionalIndex(targetPrevIndex, targetNextIndex,
                                            ks[1])]
    ELSE IF es5Defaulted(distributeEvenly)
    THEN LET start == IF Truthy(targetPrevIndex)
                      THEN Number[Slice(targetPrevIndex, 7)] ELSE <<>>
         IN  ReturnedAll(
                es5Positions[start,
                             IF Truthy(targetNextIndex)
                             THEN Number[Slice(targetNextIndex, 7)]
                             ELSE FAdd(start,
                                       FMulInt(Number[<<0, Dot, 0, 0, 1>>],
                                               count)),
                             count, ks],
                FALSE)
    ELSE es5GenerateBulkIndexes(targetPrevIndex, targetNextIndex, count, ks)

\* distributeEvenly = true, the default parameter of index.js
defaultEvenly(distributeEvenly) ==
    IF distributeEvenly = Omitted THEN TRUE ELSE distributeEvenly[1]

-----------------------------------------------------------------------------
(* The caller                                                              *)

VARIABLES
    op,                \* the operation called last, "none" before any call
    prevIndex,         \* its arguments
    nextIndex,
    count,
    distributeEvenly,
    draws,             \* what Math.random() returned to it, in order
    result,            \* what it did
    round,             \* the calls made so far by a walk
    source,            \* the values Math.random() can return in this run
    items,             \* the indexes of the caller's list, in list order
    removed            \* the items the caller has removed so far

vars == <<op, prevIndex, nextIndex, count, distributeEvenly, draws, result,
          round, source, items, removed>>

NoResult == [thrown |-> FALSE, value |-> <<>>, warned |-> FALSE]

\* numeric comparison of two index strings, as Number(a) < Number(b)
NumLess(a, b) == FLess(Number[a], Number[b])
Positive(a) == Number[a] # <<>>

\* the UTF-16 code unit of a character of an index string
CharCode(c) == IF c = Dot THEN 46 ELSE IF c = Minus THEN 45 ELSE 48 + c

\* comparison of two index strings as strings, a < b: at the first
\* character that differs the code unit decides, and a proper prefix is
\* less than the longer string
StrLess(a, b) ==
    \/ \E i \in 1..Len(a) :
          /\ i <= Len(b)
          /\ SubSeq(a, 1, i - 1) = SubSeq(b, 1, i - 1)
          /\ CharCode(a[i]) < CharCode(b[i])
    \/ /\ Len(a) < Len(b)
       /\ a = SubSeq(b, 1, Len(a))

\* index strings: k units in the last of f decimals, and 0.001 plus k units
\* in the fifteenth decimal
MaxUnits == 3
Units(k, f) == <<0, Dot>> \o Zeros(f - 1) \o <<k>>
AboveStep(k) == <<0, Dot, 0, 0, 1>> \o Zeros(11) \o <<k>>

\* the index strings of the danger scenarios
ScenarioIndexes ==
    { <<0, Dot, 0, 0, 0, 7, 6, 3, 7, 5, 7, 2>>,
      <<0, Dot, 0, 0, 0, 7, 8, 7, 0, 3, 3, 5>>,
      <<0, Dot, 0, 0, 1>>,
      <<0, Dot, 0, 0, 2>>,
      <<0, Dot, 1, 0, 0, 0, 0, 0, 1>>,
      <<0, Dot, 1, 0, 0, 0, 0, 0, 2>>,
      <<0, Dot, 1, 2, 3, 4, 5, 6, 7, 8, 9, 0, 1, 2, 3, 4, 5>>,
      <<0, Dot, 1, 2, 3, 4, 5, 6, 7, 8, 9, 0, 1, 2, 3, 4, 6>>,
      <<0, Dot, 9, 9, 9, 9, 9, 9, 9, 9, 9, 9, 9, 9, 9, 9, 8>>,
      <<0, Dot, 9, 9, 9, 9, 9, 9, 9, 9, 9, 9, 9, 9, 9, 9, 9>>,
      <<9, 9, 9, 9, 9, 9, Dot, 9, 9, 9, 9, 9, 9, 9, 9, 8>>,
      <<9, 9, 9, 9, 9, 9, Dot, 9, 9, 9, 9, 9, 9, 9, 9, 9>> }

\* 2^43 and 2^44, where the spacing of binary64 values passes the step
LargeIndexes ==
    { <<8, 7, 9, 6, 0, 9, 3, 0, 2, 2, 2, 0, 8>>,
      <<1, 7, 5, 9, 2, 1, 8, 6, 0, 4, 4, 4, 1, 6>> }

\* 10^6 and the binary64 value next above it: the gap, 2^-33, is above
\* minSafeGap, and no binary64 value lies between the two
AdjacentIndexes ==
    { <<1, 0, 0, 0, 0, 0, 0>>,
      <<1, 0, 0, 0, 0, 0, 0, Dot, 0, 0, 0, 0, 0, 0, 0, 0, 0, 1>> }

SingleInputs ==
    {Null} \cup ScenarioIndexes \cup LargeIndexes \cup AdjacentIndexes
           \cup {Units(k, 15) : k \in 0..MaxUnits}
           \cup {Units(k, 10) : k \in 0..MaxUnits}
           \cup {AboveStep(k) : k \in 1..MaxUnits}
           \cup { <<8, Dot>> \o Zeros(14) \o <<k>> : k \in 1..MaxUnits }

\* one call of generateFractionalIndex on arguments of the caller's choice
InitSingle ==
    /\ op = "none"
    /\ prevIndex \in SingleInputs
    /\ nextIndex \in SingleInputs
    /\ count = 1
    /\ distributeEvenly = TRUE
    /\ draws = <<>>
    /\ result = NoResult
    /\ round = 0
    /\ source = Draws
    /\ items = <<>>
    /\ removed = 0

CallSingle ==
    /\ op = "none"
    /\ \E k \in source :
          /\ result' = generateFractionalIndex(prevIndex, nextIndex, k)
          /\ draws' = <<k>>
    /\ op' = "single"
    /\ UNCHANGED <<prevIndex, nextIndex, count, distributeEvenly, round,
                   source, items, removed>>

\* one call of the old generator on the same arguments
CallBroken ==
    /\ op = "none"
    /\ \E k \in source :
          /\ result' = Returned(brokenGenerateFractionalIndex(prevIndex,
                                                              nextIndex, k),
                                FALSE)
          /\ draws' = <<k>>
    /\ op' = "broken"
    /\ UNCHANGED <<prevIndex, nextIndex, count, distributeEvenly, round,
                   source, items, removed>>

NextSingle == CallSingle \/ CallBroken

SpecSingle == InitSingle /\ [][NextSingle]_vars

-----------------------------------------------------------------------------
(* One call of a batch operation                                           *)

MaxCount == 3

BatchInputs ==
    { Null, <<0, Dot, 0, 0, 1>>, <<0, Dot, 0, 0, 2>>, Units(1, 15),
      Units(2, 15), <<9, 9, 9, 9, 9, 9, 9, Dot, 9, 9, 8>>,
      <<1, 0, 0, 0, 0, 0, 0, 0, Dot, 5>>,
      <<1, 7, 5, 9, 2, 1, 8, 6, 0, 4, 4, 4, 1, 6>> }

\* the draws a call of count items can consume, in order
DrawsFor(n) == [1..MaxI(n, 0) -> source]

InitBatch ==
    /\ op = "none"
    /\ prevIndex \in BatchInputs
    /\ nextIndex \in BatchInputs
    /\ count \in -1..MaxCount
    /\ distributeEvenly = TRUE
    /\ draws = <<>>
    /\ result = ReturnedAll(<<>>, FALSE)
    /\ round = 0
    /\ source = Draws
    /\ items = <<>>
    /\ removed = 0

CallBulk ==
    /\ op = "none"
    /\ \E ks \in DrawsFor(count) :
          /\ result' = generateBulkIndexes(prevIndex, nextIndex, count, ks)
          /\ draws' = ks
    /\ op' = "bulk"
    /\ UNCHANGED <<prevIndex, nextIndex, count, distributeEvenly, round,
                   source, items, removed>>

CallRelocation ==
    /\ op = "none"
    /\ \E evenly \in BOOLEAN, ks \in DrawsFor(count) :
          /\ result' = generateRelocationIndexes(prevIndex, nextIndex, count,
                                                 evenly, ks)
          /\ distributeEvenly' = evenly
          /\ draws' = ks
    /\ op' = "relocation"
    /\ UNCHANGED <<prevIndex, nextIndex, count, round, source, items, removed>>

NextBatch == CallBulk \/ CallRelocation

SpecBatch == InitBatch /\ [][NextBatch]_vars

-----------------------------------------------------------------------------
(* Repeated subdivision: prev := generateFractionalIndex(prev, next) with  *)
(* next fixed (danger scenario 2).  prevIndex is the bound the last call   *)
(* was given; the next call is given what it returned.                     *)

\* the rounds of the scenario
subdivisionRounds == 15

\* how far a walk is followed
MaxRounds == 50

item1Index == <<0, Dot, 0, 0, 1>>
item2Index == <<0, Dot, 0, 0, 2>>

InitWalk ==
    /\ op = "none"
    /\ prevIndex = item1Index
    /\ nextIndex = item2Index
    /\ count = 1
    /\ distributeEvenly = TRUE
    /\ draws = <<>>
    /\ result = NoResult
    /\ round = 0
    /\ source = Draws
    /\ items = <<>>
    /\ removed = 0

Subdivide ==
    /\ round < MaxRounds
    /\ ~result.thrown
    /\ prevIndex' = (IF round = 0 THEN prevIndex ELSE result.value)
    /\ \E k \in source :
          /\ result' = generateFractionalIndex(prevIndex', nextIndex, k)
          /\ draws' = <<k>>
    /\ round' = round + 1
    /\ op' = "walk"
    /\ UNCHANGED <<nextIndex, count, distributeEvenly, source, items, removed>>

NextWalk == Subdivide

SpecWalk == InitWalk /\ [][NextWalk]_vars

-----------------------------------------------------------------------------
(* A list kept in order by its indexes: the caller inserts with the index  *)
(* a call returns and removes at will; no item's index is ever changed.    *)

\* how long a list grows by insertions at its head, up to what length the
\* other operations apply, and how many items are removed
MaxLen == 24
MixLen == 3
MaxRemoves == 2

\* the list is drawn up with one value of Math.random() throughout
InitList ==
    /\ op = "none"
    /\ prevIndex = Null
    /\ nextIndex = Null
    /\ count = 1
    /\ distributeEvenly = TRUE
    /\ draws = <<>>
    /\ result = NoResult
    /\ round = 0
    /\ source \in {{k} : k \in Draws}
    /\ items = <<>>
    /\ removed = 0

\* the call generateFractionalIndex(p, n); what it returns goes into the
\* list after the first at items, and when it throws the list stays
InsertAfter(at, p, n) ==
    /\ prevIndex' = p
    /\ nextIndex' = n
    /\ \E k \in source :
          /\ result' = generateFractionalIndex(p, n, k)
          /\ draws' = <<k>>
    /\ items' = IF result'.thrown THEN items
                ELSE SubSeq(items, 1, at) \o <<result'.value>>
                        \o SubSeq(items, at + 1, Len(items))
    /\ UNCHANGED <<count, distributeEvenly, round, source, removed>>

InsertFirst ==
    /\ items = <<>>
    /\ InsertAfter(0, Null, Null)
    /\ op' = "first"

InsertHead ==
    /\ items # <<>>
    /\ Len(items) < MaxLen
    /\ InsertAfter(0, Null, items[1])
    /\ op' = "head"

InsertTail ==
    /\ items # <<>>
    /\ Len(items) < MixLen
    /\ InsertAfter(Len(items), items[Len(items)], Null)
    /\ op' = "tail"

InsertBetween ==
    /\ Len(items) < MixLen
    /\ \E i \in 1..(Len(items) - 1) : InsertAfter(i, items[i], items[i + 1])
    /\ op' = "between"

Remove ==
    /\ Len(items) <= MixLen
    /\ removed < MaxRemoves
    /\ \E i \in 1..Len(items) :
          items' = SubSeq(items, 1, i - 1) \o SubSeq(items, i + 1, Len(items))
    /\ removed' = removed + 1
    /\ op' = "remove"
    /\ UNCHANGED <<prevIndex, nextIndex, count, distributeEvenly, draws,
                   result, round, source>>

NextList == InsertFirst \/ InsertHead \/ InsertTail \/ InsertBetween \/ Remove

SpecList == InitList /\ [][NextList]_vars

-----------------------------------------------------------------------------
(* Two callers insert at the same position: each calls                     *)
(* generateFractionalIndex with the same bounds, and Math.random() gives   *)
(* each its own value.  items holds what the calls returned, in order.     *)

InitTwice ==
    /\ op = "none"
    /\ prevIndex \in BatchInputs
    /\ nextIndex \in BatchInputs
    /\ count = 1
    /\ distributeEvenly = TRUE
    /\ draws = <<>>
    /\ result = NoResult
    /\ round = 0
    /\ source = Draws
    /\ items = <<>>
    /\ removed = 0

CallAtPosition ==
    /\ round < 2
    /\ \E k \in source :
          /\ result' = generateFractionalIndex(prevIndex, nextIndex, k)
          /\ draws' = Append(draws, k)
    /\ items' = IF result'.thrown THEN items ELSE Append(items, result'.value)
    /\ round' = round + 1
    /\ op' = "twice"
    /\ UNCHANGED <<prevIndex, nextIndex, count, distributeEvenly, source,
                   removed>>

NextTwice == CallAtPosition

SpecTwice == InitTwice /\ [][NextTwice]_vars

-----------------------------------------------------------------------------
(* One call of a function of the ES5 build.  distributeEvenly holds the    *)
(* argument as the caller passed it, or Omitted.                           *)

InitES5 ==
    /\ op = "none"
    /\ prevIndex \in {Null, Units(1, 15), Units(2, 15)} \cup AdjacentIndexes
    /\ nextIndex \in {Null, Units(1, 15), Units(2, 15)} \cup AdjacentIndexes
    /\ count \in -1..MaxCount
    /\ distributeEvenly = Omitted
    /\ draws = <<>>
    /\ result = NoResult
    /\ round = 0
    /\ source = Draws
    /\ items = <<>>
    /\ removed = 0

CallES5Single ==
    /\ op = "none"
    /\ count = 1
    /\ \E k \in source :
          /\ result' = es5GenerateFractionalIndex(prevIndex, nextIndex, k)
          /\ draws' = <<k>>
    /\ op' = "es5single"
    /\ UNCHANGED <<prevIndex, nextIndex, count, distributeEvenly, round,
                   source, items, removed>>

CallES5Bulk ==
    /\ op = "none"
    /\ \E ks \in DrawsFor(count) :
          /\ result' = es5GenerateBulkIndexes(prevIndex, nextIndex, count, ks)
          /\ draws' = ks
    /\ op' = "es5bulk"
    /\ UNCHANGED <<prevIndex, nextIndex, count, distributeEvenly, round,
                   source, items, removed>>

CallES5Relocation ==
    /\ op = "none"
    /\ \E evenly \in {Omitted, <<TRUE>>, <<FALSE>>},
          ks \in DrawsFor(count) :
          /\ result' = es5GenerateRelocationIndexes(prevIndex, nextIndex,
                                                    count, evenly, ks)
          /\ distributeEvenly' = evenly
          /\ draws' = ks
    /\ op' = "es5relocation"
    /\ UNCHANGED <<prevIndex, nextIndex, count, round, source, items, removed>>

NextES5 == CallES5Single \/ CallES5Bulk \/ CallES5Relocation

SpecES5 == InitES5 /\ [][NextES5]_vars

-----------------------------------------------------------------------------
(* Properties                                                              *)

\* what a call returned lies strictly between the bounds it was given
Inside == /\ ~result.thrown
          /\ NumLess(prevIndex, result.value)
          /\ NumLess(result.value, nextIndex)

BothGiven == prevIndex # Null /\ nextIndex # Null

\* C1 (ordering bound): a call of generateFractionalIndex with two bounds
\* prev < next returns a string x with prev < x < next numerically,
\* whatever the gap and the draw.
C1_OrderingBound ==
    (op = "single" /\ BothGiven /\ NumLess(prevIndex, nextIndex)) => Inside

\* C2 (InvalidRange): a call of generateFractionalIndex throws exactly when
\* both bounds are given and prev >= next numerically; in every other case
\* it returns a value.
C2_InvalidRangeIff ==
    op = "single" =>
       (result.thrown <=> (BothGiven /\ ~NumLess(prevIndex, nextIndex)))

\* two different strings of one numeric value were given, and the call threw
C2_ThrownOnEqual ==
    /\ op = "single"
    /\ BothGiven
    /\ prevIndex # nextIndex
    /\ Number[prevIndex] = Number[nextIndex]
    /\ result.thrown

\* C3 (bulk monotonicity): for prev < next and count > 1 the call of
\* generateBulkIndexes returns count values, strictly increasing and each
\* strictly inside (prev, next), whatever the draws.
C3_BulkMonotonic ==
    (op = "bulk" /\ count > 1 /\ BothGiven /\ NumLess(prevIndex, nextIndex)) =>
       /\ ~result.thrown
       /\ Len(result.values) = count
       /\ \A i \in 1..Len(result.values) :
             /\ NumLess(prevIndex, result.values[i])
             /\ NumLess(result.values[i], nextIndex)
       /\ \A i \in 1..(Len(result.values) - 1) :
             NumLess(result.values[i], result.values[i + 1])

\* C4 (list invariant): whatever insertions and removals the caller makes
\* from the empty list on, no call throws and the indexes of the list are
\* strictly increasing after every step.
C4_ListInvariant ==
    /\ ~result.thrown
    /\ \A i \in 1..(Len(items) - 1) : NumLess(items[i], items[i + 1])

\* C5 (50 subdivisions): every call of the walk from '0.001' towards
\* '0.002', up to the 50th, returns a value strictly above the current prev
\* and strictly below 0.002, whatever the draws.
C5_FiftyRounds == op = "walk" => Inside

\* C6 (15 subdivisions): each of the first 15 calls of that walk returns a
\* value strictly between the current prev and 0.002, whatever the draws.
C6_FifteenRounds == (op = "walk" /\ round <= subdivisionRounds) => Inside

\* the 15th call has returned, after the greatest draw
C6_FifteenthCall ==
    /\ op = "walk"
    /\ round = subdivisionRounds
    /\ draws = <<Pow2(RandBits) - 1>>
    /\ ~result.thrown

\* C7 (head bound): a call of generateFractionalIndex with only an upper
\* bound next > 0 returns a value v with 0 < v < next, whatever the draw.
C7_HeadBound ==
    (op = "single" /\ prevIndex = Null /\ nextIndex # Null
        /\ Positive(nextIndex)) =>
       /\ ~result.thrown
       /\ Positive(result.value)
       /\ NumLess(result.value, nextIndex)

\* C8 (tail bound): a call of generateFractionalIndex with only a lower
\* bound prev returns a value v > prev, whatever the draw.
C8_TailBound ==
    (op = "single" /\ prevIndex # Null /\ nextIndex = Null) =>
       /\ ~result.thrown
       /\ NumLess(prevIndex, result.value)

\* C9 (empty collection): a call of generateFractionalIndex without bounds
\* returns a value in the open interval (0, 0.001), whatever the draw.
C9_EmptyBound ==
    (op = "single" /\ prevIndex = Null /\ nextIndex = Null) =>
       /\ ~result.thrown
       /\ Positive(result.value)
       /\ NumLess(result.value, <<0, Dot, 0, 0, 1>>)

\* the call without bounds has returned, after the greatest draw
C9_EmptyCall ==
    /\ op = "single"
    /\ prevIndex = Null
    /\ nextIndex = Null
    /\ draws = <<Pow2(RandBits) - 1>>
    /\ ~result.thrown

\* what generateFractionalIndex does on the arguments of the batch call
\* with its first draw
SingleOutcome == generateFractionalIndex(prevIndex, nextIndex, draws[1])

\* C10 (degenerate counts): with count <= 0 both batch operations return
\* the empty sequence and do not throw; with count = 1 each returns the one
\* value generateFractionalIndex returns for the same bounds and draw (and
\* throws when it throws), whatever distributeEvenly is.
C10_DegenerateCounts ==
    op \in {"bulk", "relocation"} =>
       /\ count <= 0 => (~result.thrown /\ result.values = <<>>)
       /\ count = 1 =>
             /\ result.thrown = SingleOutcome.thrown
             /\ ~result.thrown => result.values = <<SingleOutcome.value>>

\* a relocation of one item, evenly distributed, has returned
C10_OneRelocated ==
    /\ op = "relocation"
    /\ count = 1
    /\ distributeEvenly
    /\ ~result.thrown
    /\ Len(result.values) = 1

\* C11 (relocation keeps order): for prev < next and count >= 2 the call
\* of generateRelocationIndexes with even distribution returns count
\* values, strictly increasing and each strictly between prev and next.
C11_RelocationOrdered ==
    (op = "relocation" /\ distributeEvenly /\ count >= 2 /\ BothGiven
        /\ NumLess(prevIndex, nextIndex)) =>
       /\ ~result.thrown
       /\ Len(result.values) = count
       /\ \A i \in 1..Len(result.values) :
             /\ NumLess(prevIndex, result.values[i])
             /\ NumLess(result.values[i], nextIndex)
       /\ \A i \in 1..(Len(result.values) - 1) :
             NumLess(result.values[i], result.values[i + 1])

\* C12 (lexicographic order): any two strings one batch call returns
\* compare as strings the way their numeric values compare.
C12_LexicographicOrder ==
    (op \in {"bulk", "relocation"} /\ ~result.thrown) =>
       \A i, j \in 1..Len(result.values) :
          StrLess(result.values[i], result.values[j])
             <=> NumLess(result.values[i], result.values[j])

\* C13 (uniqueness): two calls of generateFractionalIndex for the same
\* position return different strings, even when Math.random() gives the
\* two calls different values.
C13_DistinctResults ==
    (op = "twice" /\ Len(items) = 2 /\ draws[1] # draws[2]) =>
       items[1] # items[2]

\* the digits a returned string has after its decimal point
Decimals(str) == Len(FracPart(str))

C15_DelegatesToBulk ==
    (op = "relocation" /\ ~distributeEvenly /\ count >= 2) =>
       result = generateBulkIndexes(prevIndex, nextIndex, count, draws)

\* a relocation without even distribution has thrown on bounds in order
C15_DelegatedThrow ==
    /\ op = "relocation"
    /\ ~distributeEvenly
    /\ count >= 2
    /\ BothGiven
    /\ NumLess(prevIndex, nextIndex)
    /\ result.thrown

\* C16 (ES5 build): what a function of the ES5 build returned, or that it
\* threw, is what the function of the same name of index.js does on the
\* same arguments and draws, an omitted distributeEvenly included.
C16_ES5Equivalent ==
    /\ op = "es5single" =>
          result = generateFractionalIndex(prevIndex, nextIndex, draws[1])
    /\ op = "es5bulk" =>
          result = generateBulkIndexes(prevIndex, nextIndex, count, draws)
    /\ op = "es5relocation" =>
          result = generateRelocationIndexes(prevIndex, nextIndex, count,
                                             defaultEvenly(distributeEvenly),
                                             draws)

\* the ES5 build has relocated two items or more without being told how
C16_OmittedArgument ==
    /\ op = "es5relocation"
    /\ distributeEvenly = Omitted
    /\ count >= 2
    /\ ~result.thrown
    /\ Len(result.values) = count

\* C17 (no I/O): the only effect of a call of generateFractionalIndex is
\* what it returns or throws; no call writes the boundary warning to the
\* console.
C17_NoConsoleOutput == op = "single" => ~result.warned

\* indexes[i] = position + jitter, taken apart: the position, and the
\* number its five last characters spell
PositionOf(str) == SubSeq(str, 1, Len(str) - 5)
SuffixOf(str) ==
    LET s == SubSeq(str, Len(str) - 4, Len(str))
    IN  s[1] * 10000 + s[2] * 1000 + s[3] * 100 + s[4] * 10 + s[5]

C19_PrefixCollapse ==
    (op = "relocation" /\ distributeEvenly /\ count >= 2 /\ BothGiven
        /\ prevIndex # nextIndex
        /\ Slice(prevIndex, 7) = Slice(nextIndex, 7)) =>
       /\ ~result.thrown
       /\ Len(result.values) = count
       /\ \A i \in 1..count :
             PositionOf(result.values[i])
                = ToFixed(Number[Slice(prevIndex, 7)], 5)
       /\ \A i, j \in 1..count :
             NumLess(result.values[i], result.values[j])
                <=> SuffixOf(result.values[i]) < SuffixOf(result.values[j])

\* collapsed bounds in order got a batch that is not strictly increasing
C19_UnorderedBatch ==
    /\ op = "relocation"
    /\ distributeEvenly
    /\ count >= 2
    /\ BothGiven
    /\ NumLess(prevIndex, nextIndex)
    /\ Slice(prevIndex, 7) = Slice(nextIndex, 7)
    /\ ~result.thrown
    /\ \E i \in 1..(Len(result.values) - 1) :
          ~NumLess(result.values[i], result.values[i + 1])

\* C20 (tiny gap): with both bounds given and 0 < next - prev <= 1e-10 the
\* call returns prev + (next - prev) / 2 at 15 decimals whatever
\* Math.random() would return, so two such calls return one string; with a
\* gap above 1e-10 it returns the jittered candidate (or, after the
\* boundary warning, the midpoint).
C20_TinyGapDeterministic ==
    (op = "single" /\ BothGiven /\ NumLess(prevIndex, nextIndex)) =>
       LET prevNum == Number[prevIndex]
           gap == FSub(Number[nextIndex], prevNum)
           midpoint == FAdd(prevNum, FDivInt(gap, 2))
       IN  IF BigCmp[gap, minSafeGap] <= 0
           THEN result = Returned(ToFixed(midpoint, 15), FALSE)
           ELSE \/ result.warned
                \/ result.value
                      = ToFixed(SAdd[midpoint, jitterOf(gap, draws[1])].mag, 15)

\* the tiny-gap branch has returned on a gap of exactly 1e-10, the greatest
\* draw being at hand
C20_TinyGapReturned ==
    /\ op = "single"
    /\ BothGiven
    /\ NumLess(prevIndex, nextIndex)
    /\ FSub(Number[nextIndex], Number[prevIndex]) = minSafeGap
    /\ draws = <<Pow2(RandBits) - 1>>
    /\ ~result.thrown
    /\ ~result.warned

\* C21 (bounded jitter) as the specification words it: with both bounds
\* given and a gap above 1e-10, the jitter is within a quarter of the gap
\* of zero, and the candidate midpoint + jitter is at least a quarter of
\* the gap away from prev and from next, so strictly between them.
C21_QuarterAwayAsWorded ==
    (op = "single" /\ BothGiven /\ NumLess(prevIndex, nextIndex)) =>
       LET prevNum == Number[prevIndex]
           nextNum == Number[nextIndex]
           gap == FSub(nextNum, prevNum)
           jitter == jitterOf(gap, draws[1])
           finalIndex == SAdd[midpointOf(prevNum, gap), jitter].mag
       IN  ~FLessEq(gap, minSafeGap) =>
              /\ BigCmp[MulSmall[jitter.mag, 4], gap] <= 0
              /\ FLess(prevNum, finalIndex)
              /\ FLess(finalIndex, nextNum)
              /\ BigCmp[MulSmall[BigSub[finalIndex, prevNum], 4], gap] >= 0
              /\ BigCmp[MulSmall[BigSub[nextNum, finalIndex], 4], gap] >= 0

\* C21 (bounded jitter), amended: the jitter is within an eighth of the
\* gap of zero; the candidate, a binary64 value, is never below prev nor
\* above next, and it is what the call formats unless the boundary warning
\* is written; it is at least a quarter of the gap away from both bounds
\* when the gap is at least next * 2^-49, that is 8 binary64 steps.
C21_QuarterAway ==
    (op = "single" /\ BothGiven /\ NumLess(prevIndex, nextIndex)) =>
       LET prevNum == Number[prevIndex]
           nextNum == Number[nextIndex]
           gap == FSub(nextNum, prevNum)
           jitter == jitterOf(gap, draws[1])
           finalIndex == SAdd[midpointOf(prevNum, gap), jitter].mag
       IN  ~FLessEq(gap, minSafeGap) =>
              /\ BigCmp[MulSmall[jitter.mag, 8], gap] <= 0
              /\ FLessEq(prevNum, finalIndex)
              /\ FLessEq(finalIndex, nextNum)
              /\ result.warned \/ result.value = ToFixed(finalIndex, 15)
              /\ BigCmp[Zeros(3) \o MulSmall[gap, 16], nextNum] >= 0 =>
                    /\ BigCmp[MulSmall[BigSub[finalIndex, prevNum], 4], gap]
                          >= 0
                    /\ BigCmp[MulSmall[BigSub[nextNum, finalIndex], 4], gap]
                          >= 0

\* the least draw gave a jitter of an eighth of a gap of many binary64
\* steps, below the midpoint, and the candidate was returned
C21_LeastDraw ==
    /\ op = "single"
    /\ BothGiven
    /\ NumLess(prevIndex, nextIndex)
    /\ ~FLessEq(FSub(Number[nextIndex], Number[prevIndex]), minSafeGap)
    /\ BigCmp[Zeros(3) \o MulSmall[FSub(Number[nextIndex], Number[prevIndex]), 16], Number[nextIndex]] >= 0
    /\ draws = <<0>>
    /\ jitterOf(FSub(Number[nextIndex], Number[prevIndex]), 0).neg
    /\ MulSmall[jitterOf(FSub(Number[nextIndex], Number[prevIndex]), 0).mag, 8] = FSub(Number[nextIndex], Number[prevIndex])
    /\ ~result.thrown
    /\ ~result.warned

C23_BatchNeverFails ==
    (op = "bulk" /\ count >= 0
        /\ (prevIndex = Null \/ nextIndex = Null
               \/ NumLess(prevIndex, nextIndex))) =>
       /\ ~result.thrown
       /\ Len(result.values) = count

\* the bounds of the QA case
beforeIndex == <<0, Dot, 0, 0, 0, 7, 6, 3, 7, 5, 7, 2>>
afterIndex == <<0, Dot, 0, 0, 0, 7, 8, 7, 0, 3, 3, 5>>

\* C24 (the QA case): between '0.0007637572' and '0.0007870335' the
\* current generateFractionalIndex returns a value strictly inside the
\* bounds whatever the draw, while the old generator returns '0.00078'
\* and its jitter, which is outside the bounds exactly when the jitter is
\* 70335 or more.
C24_QACase ==
    (prevIndex = beforeIndex /\ nextIndex = afterIndex) =>
       /\ op = "single" => Inside
       /\ op = "broken" =>
             /\ PositionOf(result.value) = <<0, Dot, 0, 0, 0, 7, 8>>
             /\ Inside <=> SuffixOf(result.value) < 70335

\* the old generator has returned a value outside the bounds of the QA case
C24_BrokenViolation ==
    /\ op = "broken"
    /\ prevIndex = beforeIndex
    /\ nextIndex = afterIndex
    /\ ~Inside

\* C25 (limit of strict betweenness): for bounds of at most 15 fractional
\* digits, the call returns a value strictly inside them when next - prev,
\* taken as decimals, is 2e-15 or more, and a value numerically equal to
\* one of the bounds when it is exactly 1e-15.
C25_BetweennessLimit ==
    (op = "single" /\ BothGiven /\ Decimals(prevIndex) <= 15
        /\ Decimals(nextIndex) <= 15) =>
       LET units(s) == DigitsToBig[IntPart(s) \o FracPart(s)
                                      \o Zeros(15 - Decimals(s))]
           apart(n) == /\ BigCmp[units(nextIndex), units(prevIndex)] > 0
                       /\ BigCmp[BigSub[units(nextIndex), units(prevIndex)],
                                 <<n>>] >= 0
       IN  /\ apart(2) => Inside
           /\ (apart(1) /\ ~apart(2)) =>
                 /\ ~result.thrown
                 /\ \/ Number[result.value] = Number[prevIndex]
                    \/ Number[result.value] = Number[nextIndex]

\* C26 as worded (the even distribution does not validate its bounds): for
\* targetPrev >= targetNext, a call for 2 or more items distributed evenly
\* raises nothing and returns count strings whose positions never
\* increase, and a call for 1 item, or one not distributed evenly, raises
\* InvalidRange.
C26_UnvalidatedAsWorded ==
    (op = "relocation" /\ BothGiven /\ count >= 1
        /\ ~NumLess(prevIndex, nextIndex)) =>
       IF distributeEvenly /\ count >= 2
       THEN /\ ~result.thrown
            /\ Len(result.values) = count
            /\ \A i \in 1..(count - 1) :
                  FLessEq(Number[PositionOf(result.values[i + 1])],
                          Number[PositionOf(result.values[i])])
       ELSE result.thrown

\* C26 (the even distribution does not validate its bounds): as above, the
\* positions never increasing when neither bound has more than 7
\* characters before its decimal point.
C26_Unvalidated ==
    (op = "relocation" /\ BothGiven /\ count >= 1
        /\ ~NumLess(prevIndex, nextIndex)) =>
       IF distributeEvenly /\ count >= 2
       THEN /\ ~result.thrown
            /\ Len(result.values) = count
            /\ (DotPos(prevIndex) <= 8 /\ DotPos(nextIndex) <= 8) =>
                  \A i \in 1..(count - 1) :
                     FLessEq(Number[PositionOf(result.values[i + 1])],
                             Number[PositionOf(result.values[i])])
       ELSE result.thrown

\* a batch returned for reversed bounds, its positions decreasing
C26_ReversedBatch ==
    /\ op = "relocation" /\ BothGiven /\ distributeEvenly /\ count >= 2
    /\ NumLess(nextIndex, prevIndex)
    /\ ~result.thrown
    /\ Len(result.values) = count
    /\ FLess(Number[PositionOf(result.values[2])],
             Number[PositionOf(result.values[1])])

C28_HeadInsertions ==
    (/\ op = "head"
     /\ \E k \in source :
           /\ items[Len(items)] = emptyList(k)
           /\ \A i \in 1..(Len(items) - 1) :
                 items[i] = generateFractionalIndex(Null, items[i + 1], k).value)
       => /\ ~result.thrown
          /\ Positive(items[1])
          /\ NumLess(items[1], items[2])

\* C29 (open-ended append): generateBulkIndexes(prev, null, count) for
\* count >= 1 raises nothing, returns count values of which the first is
\* above prev when prev is given, and every two consecutive values differ,
\* as the decimals they are, by at least 0.001 and at most 0.0011.
C29_OpenEndedAppend ==
    (op = "bulk" /\ nextIndex = Null /\ count >= 1) =>
       LET units(s) == DigitsToBig[IntPart(s) \o FracPart(s)]
           apart(i) == BigSub[units(result.values[i + 1]),
                              units(result.values[i])]
       IN  /\ ~result.thrown
           /\ Len(result.values) = count
           /\ \A i \in 1..count : Decimals(result.values[i]) = 10
           /\ prevIndex # Null => NumLess(prevIndex, result.values[1])
           /\ \A i \in 1..(count - 1) :
                 /\ NumLess(result.values[i], result.values[i + 1])
                 /\ BigCmp[DigitsToBig[<<1, 0, 0, 0, 0, 0, 0, 0>>],
                           apart(i)] <= 0
                 /\ BigCmp[apart(i),
                           DigitsToBig[<<1, 1, 0, 0, 0, 0, 0, 0>>]] <= 0

====
